---- MODULE Spec2Model ----
(***************************************************************************)
(* Outbound dispatch and delivery-status reconciliation of SERVERWPPJS.    *)
(*                                                                         *)
(* The model follows the JavaScript event loop: a handler runs without     *)
(* interruption from one `await` to the next, so every action below is one *)
(* such stretch of code together with the external call (database query,   *)
(* transport send) whose completion resumes it.  A database call executes  *)
(* at one instant; what the handler does with its answer happens in a      *)
(* later step, so other handlers' database calls can fall in between.      *)
(***************************************************************************)
EXTENDS Integers, Sequences, FiniteSets, Bags

\* ------------------------------------------------------------------ bounds
MaxAcks == 2          \* acknowledgement events delivered by the transport
NumHandlers == 2      \* message_ack handler invocations in flight at once
MaxRecipients == 1    \* valid records of the largest batch
MaxJobs == 1          \* bulk jobs started beside the acknowledgement handlers
MaxInbound == 1       \* inbound messages delivered by the transport
MaxConcurrentJobs == 2  \* bulk jobs started when requests are studied together
MaxBulkRecipients == 2  \* valid records of the largest batch of a job studied alone
MaxManual == 1        \* accepted /send-message requests
MaxRows == 3          \* data rows of a batch handed to the parser

Handlers == 1..NumHandlers
Jobs == 1..MaxConcurrentJobs
ManualSends == 1..MaxManual

\* ------------------------------------------------------------- value space
NoMid == 0            \* message_id: null
NoErr == "null"       \* error_message: null
NoData == [id |-> 0]  \* `data` of a call that returned no row
NoAck == [newStatus |-> "none"]

\* The codes of the transport's acknowledgement stream: the six keys of
\* statusMap and one code that is not a key.
AckCodes == {-1, 0, 1, 2, 3, 4, 5}

VARIABLES
    db,          \* table `messages`: the sequence of rows, a row's id its index
    handlers,    \* the message_ack handler invocations
    bulk,        \* the bulk jobs (processCsvAndSendBulk), one per accepted upload
    manual,      \* the /send-message requests
    clientStatus, \* `let clientStatus`
    inbound,     \* the inbound message handler invocation
    wsUpdates,   \* wss.broadcast: the bag of message_update payloads sent
    wsNew,       \* wss.broadcast: the bag of new_message payloads sent
    wsBulk,      \* wss.broadcast: the bulk_progress, bulk_complete and error
                 \* events sent, in order
    nextMid,     \* the next identifier the transport assigns
    nAcks,       \* acknowledgement events delivered so far
    nInbound,    \* inbound messages delivered so far
    ledger,      \* history, per row: highest status stored and last handled ack
    writes,      \* history: the bag of rows returned by the successful updates
    drops,       \* history: the kinds of acknowledgement and request dropped so far
    foreign,     \* the transport: the identifiers of the messages that are not fromMe
    csv          \* the parser of a batch: its rows, the records pushed, the rows rejected

vars == <<db, handlers, bulk, manual, clientStatus, inbound, wsUpdates, wsNew, wsBulk,
          nextMid, nAcks, nInbound, ledger, writes, drops, foreign, csv>>

\* ------------------------------------------------------------------ helpers
Max(a, b) == IF a >= b THEN a ELSE b

\* statusHierarchy.indexOf(status)
IndexOf(status) ==
    CASE status = "pending" -> 0
      [] status = "sent" -> 1
      [] status = "delivered" -> 2
      [] status = "read" -> 3
      [] OTHER -> -1

\* statusMap[ack] || 'unknown', with 'played' collapsed onto 'read'
NewStatus(ack) ==
    LET mapped == CASE ack = -1 -> "error"
                    [] ack = 0 -> "pending"
                    [] ack = 1 -> "sent"
                    [] ack = 2 -> "delivered"
                    [] ack = 3 -> "read"
                    [] ack = 4 -> "played"
                    [] OTHER -> "unknown"
    IN IF mapped = "played" THEN "read" ELSE mapped

\* Mutant: the fromMe check left out.
AckIsOurs_Any(fromMe) == TRUE

\* `if (!message.fromMe) return;`
AckIsOurs(fromMe) == fromMe

\* .from('messages').select('id, status').eq('message_id', mid): the ids of
\* the matching rows
FindByMessageId(rows, mid) == {i \in DOMAIN rows : rows[i].message_id = mid}

\* Mutant: the outer comparison written >= like the inner one.
AckApplies_Geq(currentStatus, newStatus) ==
    LET currentIndex == IndexOf(currentStatus)
        newIndex == IndexOf(newStatus)
    IN /\ \/ newStatus = "error"
          \/ (newIndex >= currentIndex /\ currentStatus \notin {"read", "error"})
       /\ (currentStatus \notin {"read", "error"} \/ newStatus = "error")
       /\ (newStatus = "error" \/ newIndex >= currentIndex)

\* Mutant: the hierarchy comparisons left out.
AckApplies_NoRank(currentStatus, newStatus) ==
    newStatus = "error" \/ currentStatus \notin {"read", "error"}

\* Mutant: error not forced in.
AckApplies_NoForce(currentStatus, newStatus) ==
    /\ IndexOf(newStatus) > IndexOf(currentStatus)
    /\ currentStatus \notin {"read", "error"}

\* The three nested conditions that guard the update in the message_ack handler.
AckApplies(currentStatus, newStatus) ==
    LET currentIndex == IndexOf(currentStatus)
        newIndex == IndexOf(newStatus)
    IN /\ \/ newStatus = "error"
          \/ (newIndex > currentIndex /\ currentStatus \notin {"read", "error"})
       /\ (currentStatus \notin {"read", "error"} \/ newStatus = "error")
       /\ (newStatus = "error" \/ newIndex >= currentIndex)

\* Mutant: only the status written.
UpdateData_StatusOnly(row, messageId, status, errorMessage) ==
    [row EXCEPT !.status = status]

\* updateData of updateMessageStatusAndId applied to the stored row
UpdateData(row, messageId, status, errorMessage) ==
    [row EXCEPT !.status = status,
                !.message_id = IF messageId # NoMid THEN messageId ELSE @,
                !.error_message = IF status = "error" /\ errorMessage # NoErr
                                  THEN errorMessage ELSE NoErr]

\* Mutant: message_update broadcast whatever the answer.
UpdateBroadcast_Always(data) == SetToBag({data})

\* What updateMessageStatusAndId broadcasts for the answer of its update:
\* message_update with the returned row, nothing when no row came back.
UpdateBroadcast(data) == IF data # NoData THEN SetToBag({data}) ELSE EmptyBag

\* The row saveMessageToDb inserts.
MessageData(id, messageId, status, isOutgoing, messageType, errorMessage) ==
    [id |-> id, message_id |-> messageId, status |-> status,
     is_outgoing |-> isOutgoing, message_type |-> messageType,
     error_message |-> errorMessage]

\* ----------------------------------------------------------------- history
\* The order in which a later write replaces an earlier one when the writes
\* are applied one after the other: error above read above ... above pending.
ExtRank(status) == IF status = "error" THEN 4 ELSE IndexOf(status)

NewLedgerEntry(row) == [top |-> ExtRank(row.status), last |-> NoAck]

Stored(led, id, row) == [led EXCEPT ![id].top = Max(@, ExtRank(row.status))]

\* The last acknowledgement handled for row id: the status it proposed, the
\* status its lookup returned, the row before and after its handling, whether
\* it was applied, and whether it repeated the acknowledgement handled just
\* before it for this row (same status proposed, row untouched in between).
Handled(led, id, newStatus, from, before, row, applied, again) ==
    [led EXCEPT ![id].last = [newStatus |-> newStatus, from |-> from, before |-> before,
                              row |-> row, applied |-> applied, again |-> again]]

Repeats(led, rows, id, newStatus) ==
    /\ led[id].last # NoAck
    /\ led[id].last.newStatus = newStatus
    /\ led[id].last.row = rows[id]

\* -------------------------------------------------------------------- Init
IdleHandler == [pc |-> "idle", message_id |-> NoMid, newStatus |-> "none",
                fromMe |-> TRUE, dbId |-> 0, currentStatus |-> "none", repeat |-> FALSE]

\* `sends` is history: the transport sends the job has issued.
IdleBulk == [pc |-> "idle", total |-> 0, i |-> 0, sentCount |-> 0, failCount |-> 0,
             dbId |-> 0, messageId |-> NoMid, status |-> "none", sends |-> 0]

IdleManual == [pc |-> "idle", dbId |-> 0, messageId |-> NoMid, status |-> "none"]

\* `from` and `sends` are history: the sender of the last message delivered
\* and the auto-response sends issued for it.
IdleInbound == [pc |-> "idle", message_id |-> NoMid, status |-> "none",
                from |-> "none", sends |-> 0]

\* The parser before a batch is handed to it.
IdleCsv == [rows |-> <<>>, lines |-> 0, records |-> <<>>, rejected |-> {}, state |-> "idle"]

Init ==
    /\ db = <<>>
    /\ handlers = [h \in Handlers |-> IdleHandler]
    /\ bulk = [j \in Jobs |-> IdleBulk]
    /\ manual = [m \in ManualSends |-> IdleManual]
    /\ clientStatus = "INITIALIZING"
    /\ inbound = IdleInbound
    /\ wsUpdates = EmptyBag
    /\ wsNew = EmptyBag
    /\ wsBulk = [j \in Jobs |-> <<>>]
    /\ nextMid = 1
    /\ nAcks = 0
    /\ nInbound = 0
    /\ ledger = <<>>
    /\ writes = EmptyBag
    /\ drops = {}
    /\ foreign = {}
    /\ csv = IdleCsv

\* ------------------------------------------------- client.on('message_ack')
\* message.fromMe: whether the account itself sent the message `mid`.
FromMe(mid) == mid \notin foreign

\* The transport delivers an acknowledgement: the handler maps the code and
\* returns at once when the message is not ours; otherwise it issues the
\* lookup.  Any identifier the transport has issued may come with any code;
\* fromMe is the property of the message the acknowledgement is for.
AckReceive(h, mid, ack, fromMe) ==
    /\ handlers[h].pc = "idle"
    /\ \A g \in Handlers : g < h => handlers[g].pc # "idle"
    /\ nAcks < MaxAcks
    /\ nAcks' = nAcks + 1
    /\ IF AckIsOurs(fromMe)
       THEN /\ handlers' = [handlers EXCEPT ![h] =
                   [IdleHandler EXCEPT !.pc = "find", !.message_id = mid,
                                       !.newStatus = NewStatus(ack),
                                       !.fromMe = fromMe]]
            /\ UNCHANGED drops
       ELSE /\ drops' = drops \cup {"ignored"}
            /\ UNCHANGED handlers
    /\ UNCHANGED <<db, bulk, inbound, wsUpdates, wsNew, wsBulk, nextMid, manual, clientStatus,
                   nInbound, ledger, writes>>
    /\ UNCHANGED <<foreign, csv>>

\* The lookup is answered, with an error or with the rows that match, and
\* the handler decides on the row it returned.
AckFindAnswer(h, findError) ==
    LET me == handlers[h]
        found == FindByMessageId(db, me.message_id)
    IN
    /\ me.pc = "find"
    /\   IF findError \/ Cardinality(found) > 1
         THEN \* maybeSingle() answers an error (also for several rows): logged
              /\ handlers' = [handlers EXCEPT ![h] = IdleHandler]
              /\ UNCHANGED <<ledger, drops>>
         ELSE IF found = {}
         THEN /\ handlers' = [handlers EXCEPT ![h] = IdleHandler]
              /\ drops' = drops \cup {"notfound"}
              /\ UNCHANGED ledger
         ELSE LET id == CHOOSE i \in found : TRUE
                  currentStatus == db[id].status
              IN IF AckApplies(currentStatus, me.newStatus)
                 THEN /\ handlers' = [handlers EXCEPT ![h] =
                             [me EXCEPT !.pc = "update", !.dbId = id,
                                        !.currentStatus = currentStatus,
                                        !.repeat =
                                            Repeats(ledger, db, id, me.newStatus)]]
                      /\ UNCHANGED <<ledger, drops>>
                 ELSE /\ handlers' = [handlers EXCEPT ![h] = IdleHandler]
                      /\ ledger' = Handled(ledger, id, me.newStatus, currentStatus,
                                           db[id], db[id], FALSE,
                                           Repeats(ledger, db, id, me.newStatus))
                      /\ UNCHANGED drops
    /\ UNCHANGED <<db, bulk, inbound, wsUpdates, wsNew, wsBulk, nextMid, nAcks,
                   manual, clientStatus, nInbound, writes>>
    /\ UNCHANGED <<foreign, csv>>

\* The lookup executes.
AckFind(h) == \E findError \in BOOLEAN : AckFindAnswer(h, findError)

\* The update of updateMessageStatusAndId executes and its answer is
\* broadcast: it stores updateData in the row whatever the row holds by now
\* and message_update carries the returned row, or it fails, stores nothing
\* and only logs.  (What follows the answer neither reads nor writes the
\* table, so it is taken together with the call.)
AckUpdateAnswer(h, ok) ==
    LET me == handlers[h]
        row == UpdateData(db[me.dbId], me.message_id, me.newStatus, NoErr)
    IN
    /\ me.pc = "update"
    /\   IF ok
         THEN /\ db' = [db EXCEPT ![me.dbId] = row]
              /\ ledger' = Handled(Stored(ledger, me.dbId, row), me.dbId,
                                   me.newStatus, me.currentStatus, db[me.dbId], row, TRUE,
                                   me.repeat /\ Repeats(ledger, db, me.dbId, me.newStatus))
              /\ writes' = writes (+) SetToBag({row})
              /\ wsUpdates' = wsUpdates (+) UpdateBroadcast(row)
         ELSE /\ wsUpdates' = wsUpdates (+) UpdateBroadcast(NoData)
              /\ UNCHANGED <<db, ledger, writes>>
    /\ handlers' = [handlers EXCEPT ![h] = IdleHandler]
    /\ UNCHANGED <<bulk, inbound, wsNew, wsBulk, nextMid, nAcks, manual, clientStatus, nInbound,
                   drops>>
    /\ UNCHANGED <<foreign, csv>>

\* The update executes.
AckUpdate(h) == \E ok \in BOOLEAN : AckUpdateAnswer(h, ok)

\* ---------------------------------------------------- processCsvAndSendBulk
\* Mutant: `current` is the index of the recipient, not the count so far.
ProgressEvent_Index(current, total, success, failed) ==
    [type |-> "bulk_progress",
     payload |-> [current |-> IF current > 0 THEN current - 1 ELSE 0, total |-> total,
                  success |-> success, failed |-> failed]]

ProgressEvent(current, total, success, failed) ==
    [type |-> "bulk_progress",
     payload |-> [current |-> current, total |-> total, success |-> success,
                  failed |-> failed]]

CompleteEvent(total, sent, failed, jobId) ==
    [type |-> "bulk_complete",
     payload |-> [total |-> total, sent |-> sent, failed |-> failed, jobId |-> jobId]]

ErrorEvent(text) == [type |-> "error", payload |-> text]

\* '?', the total of the completion that the caller of processCsvAndSendBulk
\* broadcasts when the promise is rejected.
Unknown == -1
\* 'Todos', the failed of that completion.
Todos == -2
\* bulk_complete without a jobId (the zero-record and the rejected completions)
NoJob == 0

\* Mutant: the caller's catch only reports the error.
RejectedEvents_ErrorOnly == <<ErrorEvent("Erro fatal no envio em massa")>>

\* What /upload-mailing broadcasts when processCsvAndSendBulk rejects.
RejectedEvents ==
    <<ErrorEvent("Erro fatal no envio em massa"), CompleteEvent(Unknown, 0, Todos, NoJob)>>

\* The end of one iteration of the recipient loop of job j, the counters
\* already updated in b and `data` the answer of the iteration's update
\* (NoData when there was none): message_update, the progress broadcast, then
\* either the pacing delay of the next recipient or, after the last one, the
\* completion.
EndOfRecipient(j, b, data) ==
    /\ wsUpdates' = wsUpdates (+) UpdateBroadcast(data)
    /\ wsBulk' = [wsBulk EXCEPT ![j] = @
            \o <<ProgressEvent(b.i + 1, b.total, b.sentCount, b.failCount)>>
            \o (IF b.i + 1 = b.total
                THEN <<CompleteEvent(b.total, b.sentCount, b.failCount, j)>>
                ELSE <<>>)]
    /\ bulk' = [bulk EXCEPT ![j] =
                  [IdleBulk EXCEPT !.pc = IF b.i + 1 = b.total THEN "done" ELSE "save",
                                   !.total = b.total, !.i = b.i + 1,
                                   !.sentCount = b.sentCount,
                                   !.failCount = b.failCount,
                                   !.sends = b.sends]]

\* Mutant: no early return for an empty list of records.
BulkStart_NoZeroCase(j, n, parseOk, imageOk) ==
    IF ~parseOk
    THEN /\ wsBulk' = [wsBulk EXCEPT ![j] =
                          <<ErrorEvent("CSV Parsing Error")>> \o RejectedEvents]
         /\ bulk' = [bulk EXCEPT ![j] = [IdleBulk EXCEPT !.pc = "done"]]
    ELSE IF n > 0 /\ ~imageOk
    THEN /\ wsBulk' = [wsBulk EXCEPT ![j] =
                          <<ErrorEvent("Failed to process image for bulk send"),
                            CompleteEvent(n, 0, n, NoJob)>>
                          \o RejectedEvents]
         /\ bulk' = [bulk EXCEPT ![j] = [IdleBulk EXCEPT !.pc = "done", !.total = n]]
    ELSE /\ wsBulk' = [wsBulk EXCEPT ![j] =
                          <<ProgressEvent(0, n, 0, 0)>>
                          \o (IF n = 0 THEN <<CompleteEvent(0, 0, 0, j)>> ELSE <<>>)]
         /\ bulk' = [bulk EXCEPT ![j] =
                        [IdleBulk EXCEPT !.pc = IF n = 0 THEN "done" ELSE "save",
                                         !.total = n]]

\* Mutant: a failed image preparation does not stop the job.
BulkStart_NoAbort(j, n, parseOk, imageOk) ==
    IF ~parseOk
    THEN /\ wsBulk' = [wsBulk EXCEPT ![j] =
                          <<ErrorEvent("CSV Parsing Error")>> \o RejectedEvents]
         /\ bulk' = [bulk EXCEPT ![j] = [IdleBulk EXCEPT !.pc = "done"]]
    ELSE IF n = 0
    THEN /\ wsBulk' = [wsBulk EXCEPT ![j] = <<CompleteEvent(0, 0, 0, NoJob)>>]
         /\ bulk' = [bulk EXCEPT ![j] = [IdleBulk EXCEPT !.pc = "done"]]
    ELSE /\ wsBulk' = [wsBulk EXCEPT ![j] =
                          IF imageOk THEN <<ProgressEvent(0, n, 0, 0)>>
                          ELSE <<ErrorEvent("Failed to process image for bulk send"),
                                 ProgressEvent(0, n, 0, 0)>>]
         /\ bulk' = [bulk EXCEPT ![j] = [IdleBulk EXCEPT !.pc = "save", !.total = n]]

\* processCsvAndSendBulk up to its first await: the parser ends with n valid
\* records (or fails), the image is prepared, and the first pacing delay
\* starts.  Every record that passed on_record has a non-empty number, so
\* formatWhatsappNumber returns an address for it.  A rejected promise runs
\* the caller's catch.
BulkStart(j, n, parseOk, imageOk) ==
    IF ~parseOk
    THEN /\ wsBulk' = [wsBulk EXCEPT ![j] =
                          <<ErrorEvent("CSV Parsing Error")>> \o RejectedEvents]
         /\ bulk' = [bulk EXCEPT ![j] = [IdleBulk EXCEPT !.pc = "done"]]
    ELSE IF n = 0
    THEN /\ wsBulk' = [wsBulk EXCEPT ![j] = <<CompleteEvent(0, 0, 0, NoJob)>>]
         /\ bulk' = [bulk EXCEPT ![j] = [IdleBulk EXCEPT !.pc = "done"]]
    ELSE IF ~imageOk
    THEN /\ wsBulk' = [wsBulk EXCEPT ![j] =
                          <<ErrorEvent("Failed to process image for bulk send"),
                            CompleteEvent(n, 0, n, NoJob)>>
                          \o RejectedEvents]
         /\ bulk' = [bulk EXCEPT ![j] = [IdleBulk EXCEPT !.pc = "done", !.total = n]]
    ELSE /\ wsBulk' = [wsBulk EXCEPT ![j] = <<ProgressEvent(0, n, 0, 0)>>]
         /\ bulk' = [bulk EXCEPT ![j] = [IdleBulk EXCEPT !.pc = "save", !.total = n]]

\* Mutant: the endpoints do not look at the client's status.
Ready_Always(status) == TRUE

\* `clientStatus !== 'READY'`, the first check of both endpoints.
Ready(status) == status = "READY"

\* POST /upload-mailing: refused unless the client is READY and the request
\* has a CSV file and a template or an image; otherwise answered 202 and the
\* job started, whatever other job is running.  j is the job's place in the
\* order of accepted uploads.
UploadMailing(j, wellFormed, n, parseOk, imageOk) ==
    /\ bulk[j].pc = "idle"
    /\ \A k \in Jobs : k < j => bulk[k].pc # "idle"
    /\ IF ~Ready(clientStatus)
       THEN /\ drops' = drops \cup {"upload_not_ready"}
            /\ UNCHANGED <<bulk, wsBulk>>
       ELSE IF ~wellFormed
       THEN UNCHANGED <<bulk, wsBulk, drops>>
       ELSE /\ BulkStart(j, n, parseOk, imageOk)
            /\ UNCHANGED drops
    /\ UNCHANGED <<db, handlers, manual, clientStatus, inbound, wsUpdates, wsNew,
                   nextMid, nAcks, nInbound, ledger, writes>>
    /\ UNCHANGED <<foreign, csv>>

\* Mutant: the send not awaited, the loop straight at the next recipient.
BulkSave_NoWait(j, ok) ==
    /\ bulk[j].pc = "save"
    /\ bulk[j].i + 1 < bulk[j].total
    /\ bulk' = [bulk EXCEPT ![j].i = @ + 1, ![j].sends = @ + 1]
    /\ UNCHANGED <<db, handlers, manual, clientStatus, inbound, wsUpdates, wsNew, wsBulk,
                   nextMid, nAcks, nInbound, ledger, writes, drops>>
    /\ UNCHANGED <<foreign, csv>>

\* Mutant: the send issued whatever saveMessageToDb answered.
BulkSave_SendAnyway(j, ok) ==
    /\ bulk[j].pc = "save"
    /\ bulk' = [bulk EXCEPT ![j].pc = "send", ![j].sends = @ + 1]
    /\ UNCHANGED <<db, handlers, manual, clientStatus, inbound, wsUpdates, wsNew, wsBulk,
                   nextMid, nAcks, nInbound, ledger, writes, drops>>
    /\ UNCHANGED <<foreign, csv>>

\* After the pacing delay: saveMessageToDb inserts the pending row and, when
\* it has, client.sendMessage is called.
BulkSave(j, ok) ==
    /\ bulk[j].pc = "save"
    /\ IF ok
       THEN LET row == MessageData(Len(db) + 1, NoMid, "pending", TRUE, "bulk", NoErr)
            IN /\ db' = Append(db, row)
               /\ ledger' = Append(ledger, NewLedgerEntry(row))
               /\ wsNew' = wsNew (+) SetToBag({row})
               /\ bulk' = [bulk EXCEPT ![j].pc = "send", ![j].dbId = row.id,
                                       ![j].sends = @ + 1]
               /\ UNCHANGED <<wsUpdates, wsBulk>>
       ELSE /\ EndOfRecipient(j, [bulk[j] EXCEPT !.failCount = @ + 1], NoData)
            /\ UNCHANGED <<db, ledger, wsNew>>
    /\ UNCHANGED <<handlers, manual, clientStatus, inbound, nextMid, nAcks, nInbound,
                   writes, drops>>
    /\ UNCHANGED <<foreign, csv>>

\* Mutant: the exception of client.sendMessage not caught in the loop.
BulkSend_Abort(j, ok) ==
    /\ bulk[j].pc = "send"
    /\ IF ok
       THEN /\ bulk' = [bulk EXCEPT ![j].pc = "update", ![j].messageId = nextMid,
                                    ![j].status = "sent", ![j].sentCount = @ + 1]
            /\ nextMid' = nextMid + 1
       ELSE /\ bulk' = [bulk EXCEPT ![j].pc = "done"]
            /\ UNCHANGED nextMid
    /\ UNCHANGED <<db, handlers, manual, clientStatus, inbound, wsUpdates, wsNew, wsBulk,
                   nAcks, nInbound, ledger, writes, drops>>
    /\ UNCHANGED <<foreign, csv>>

\* Mutant: the id of the sent message stored at once, the row still pending.
BulkSend_StoreId(j, ok) ==
    /\ bulk[j].pc = "send"
    /\ IF ok
       THEN /\ bulk' = [bulk EXCEPT ![j].pc = "update", ![j].messageId = nextMid,
                                    ![j].status = "sent", ![j].sentCount = @ + 1]
            /\ nextMid' = nextMid + 1
            /\ db' = [db EXCEPT ![bulk[j].dbId].message_id = nextMid]
       ELSE /\ bulk' = [bulk EXCEPT ![j].pc = "update", ![j].messageId = NoMid,
                                    ![j].status = "error", ![j].failCount = @ + 1]
            /\ UNCHANGED <<nextMid, db>>
    /\ UNCHANGED <<handlers, manual, clientStatus, inbound, wsUpdates, wsNew, wsBulk,
                   nAcks, nInbound, ledger, writes, drops>>
    /\ UNCHANGED <<foreign, csv>>

\* Mutant: a failed send not counted.
BulkSend_NoCount(j, ok) ==
    /\ bulk[j].pc = "send"
    /\ IF ok
       THEN /\ bulk' = [bulk EXCEPT ![j].pc = "update", ![j].messageId = nextMid,
                                    ![j].status = "sent", ![j].sentCount = @ + 1]
            /\ nextMid' = nextMid + 1
       ELSE /\ bulk' = [bulk EXCEPT ![j].pc = "update", ![j].messageId = NoMid,
                                    ![j].status = "error"]
            /\ UNCHANGED nextMid
    /\ UNCHANGED <<db, handlers, manual, clientStatus, inbound, wsUpdates, wsNew, wsBulk,
                   nAcks, nInbound, ledger, writes, drops>>
    /\ UNCHANGED <<foreign, csv>>

\* client.sendMessage returns the sent message or throws; the loop counts it
\* and issues the update of the row.
BulkSend(j, ok) ==
    /\ bulk[j].pc = "send"
    /\ IF ok
       THEN /\ bulk' = [bulk EXCEPT ![j].pc = "update", ![j].messageId = nextMid,
                                    ![j].status = "sent", ![j].sentCount = @ + 1]
            /\ nextMid' = nextMid + 1
       ELSE /\ bulk' = [bulk EXCEPT ![j].pc = "update", ![j].messageId = NoMid,
                                    ![j].status = "error", ![j].failCount = @ + 1]
            /\ UNCHANGED nextMid
    /\ UNCHANGED <<db, handlers, manual, clientStatus, inbound, wsUpdates, wsNew, wsBulk,
                   nAcks, nInbound, ledger, writes, drops>>
    /\ UNCHANGED <<foreign, csv>>

\* The update of the row executes and its answer resumes the loop:
\* message_update for the returned row, progress, next recipient.
BulkUpdate(j, ok) ==
    /\ bulk[j].pc = "update"
    /\ LET row == UpdateData(db[bulk[j].dbId], bulk[j].messageId, bulk[j].status,
                             "Unknown sending error")
       IN IF ok
          THEN /\ db' = [db EXCEPT ![bulk[j].dbId] = row]
               /\ ledger' = Stored(ledger, bulk[j].dbId, row)
               /\ writes' = writes (+) SetToBag({row})
               /\ EndOfRecipient(j, bulk[j], row)
          ELSE /\ EndOfRecipient(j, bulk[j], NoData)
               /\ UNCHANGED <<db, ledger, writes>>
    /\ UNCHANGED <<handlers, manual, clientStatus, inbound, wsNew, nextMid, nAcks,
                   nInbound, drops>>
    /\ UNCHANGED <<foreign, csv>>

\* ------------------------------------------------------------ client status
\* updateClientStatus(newStatus): the handlers of the client's lifecycle
\* events assign the status; the guards of the endpoints only compare it
\* with 'READY'.
UpdateClientStatus(newStatus) ==
    /\ clientStatus' = newStatus
    /\ UNCHANGED <<db, handlers, bulk, manual, inbound, wsUpdates, wsNew, wsBulk,
                   nextMid, nAcks, nInbound, ledger, writes, drops>>
    /\ UNCHANGED <<foreign, csv>>

\* ----------------------------------------------------- client.on('message')
\* `let currentOperatorNumber = null`: its one assignment is in the callback
\* of getSetting, which utils does not define, so it stays null and the
\* handler neither compares the sender with it nor forwards.
currentOperatorNumber == NoMid

\* Mutant: the account's own messages answered like any other.
MsgReceive_NoIgnore(from) ==
    /\ inbound.pc = "idle"
    /\ nInbound < MaxInbound
    /\ nInbound' = nInbound + 1
    /\ nextMid' = nextMid + 1
    /\ inbound' = IF from = "status@broadcast"
                  THEN [IdleInbound EXCEPT !.from = from]
                  ELSE [IdleInbound EXCEPT !.pc = "saveIncoming", !.message_id = nextMid,
                                           !.from = from]
    /\ UNCHANGED <<db, handlers, bulk, wsUpdates, wsNew, wsBulk, nAcks, manual, clientStatus, ledger,
                   writes, drops>>
    /\ foreign' = IF from = "fromMe" THEN foreign ELSE foreign \cup {nextMid}
    /\ UNCHANGED csv

\* An inbound message arrives; status broadcasts and own messages are ignored.
MsgReceive(from) ==
    /\ inbound.pc = "idle"
    /\ nInbound < MaxInbound
    /\ nInbound' = nInbound + 1
    /\ nextMid' = nextMid + 1
    /\ inbound' = IF from \in {"status@broadcast", "fromMe"}
                  THEN [IdleInbound EXCEPT !.from = from]
                  ELSE [IdleInbound EXCEPT !.pc = "saveIncoming", !.message_id = nextMid,
                                           !.from = from]
    /\ UNCHANGED <<db, handlers, bulk, wsUpdates, wsNew, wsBulk, nAcks, manual, clientStatus, ledger,
                   writes, drops>>
    /\ foreign' = IF from = "fromMe" THEN foreign ELSE foreign \cup {nextMid}
    /\ UNCHANGED csv

\* saveMessageToDb of a row: the insert and, when it succeeds, new_message.
Insert(ok, messageId, status, isOutgoing, messageType, errorMessage) ==
    IF ok
    THEN LET row == MessageData(Len(db) + 1, messageId, status, isOutgoing,
                                messageType, errorMessage)
         IN /\ db' = Append(db, row)
            /\ ledger' = Append(ledger, NewLedgerEntry(row))
            /\ wsNew' = wsNew (+) SetToBag({row})
    ELSE UNCHANGED <<db, ledger, wsNew>>

\* The inbound message is stored as `received`; the auto-response is issued.
MsgSaveIncoming(ok) ==
    /\ inbound.pc = "saveIncoming"
    /\ Insert(ok, inbound.message_id, "received", FALSE, "incoming", NoErr)
    /\ inbound' = [inbound EXCEPT !.pc = "autoSend"]
    /\ UNCHANGED <<handlers, bulk, wsUpdates, wsBulk, nextMid, nAcks, manual, clientStatus, nInbound,
                   writes, drops>>
    /\ UNCHANGED <<foreign, csv>>

\* client.sendMessage of the auto-response returns or throws.
MsgAutoSend(ok) ==
    /\ inbound.pc = "autoSend"
    /\ IF ok
       THEN /\ inbound' = [inbound EXCEPT !.pc = "autoSave", !.message_id = nextMid,
                                          !.status = "pending", !.sends = @ + 1]
            /\ nextMid' = nextMid + 1
       ELSE /\ inbound' = [inbound EXCEPT !.pc = "autoSave", !.message_id = NoMid,
                                          !.status = "error", !.sends = @ + 1]
            /\ UNCHANGED nextMid
    /\ UNCHANGED <<db, handlers, bulk, wsUpdates, wsNew, wsBulk, nAcks, manual, clientStatus,
                   nInbound, ledger, writes, drops>>
    /\ UNCHANGED <<foreign, csv>>

\* The auto-response is stored: `pending` with the transport identifier, or
\* `error` without one.  currentOperatorNumber is null: nothing is forwarded.
MsgAutoSave(ok) ==
    /\ inbound.pc = "autoSave"
    /\ currentOperatorNumber = NoMid
    /\ Insert(ok, inbound.message_id, inbound.status, TRUE, "auto_response",
              IF inbound.status = "error" THEN "Falha ao enviar" ELSE NoErr)
    /\ inbound' = [IdleInbound EXCEPT !.from = inbound.from, !.sends = inbound.sends]
    /\ UNCHANGED <<handlers, bulk, wsUpdates, wsBulk, nextMid, nAcks, manual, clientStatus, nInbound,
                   writes, drops>>
    /\ UNCHANGED <<foreign, csv>>

\* ------------------------------------------------------ POST /send-message
\* The request is refused unless the client is READY, the number and a
\* message or image are present, the number formats to digits@c.us and the
\* image can be prepared (wellFormed); otherwise the pending row's insert is
\* issued.  m is the request's place in the order of accepted requests.
SendMessage(m, wellFormed) ==
    /\ manual[m].pc = "idle"
    /\ \A k \in ManualSends : k < m => manual[k].pc # "idle"
    /\ IF ~Ready(clientStatus)
       THEN /\ drops' = drops \cup {"send_not_ready"}
            /\ UNCHANGED manual
       ELSE IF ~wellFormed
       THEN UNCHANGED <<manual, drops>>
       ELSE /\ manual' = [manual EXCEPT ![m].pc = "save"]
            /\ UNCHANGED drops
    /\ UNCHANGED <<db, handlers, bulk, clientStatus, inbound, wsUpdates, wsNew, wsBulk,
                   nextMid, nAcks, nInbound, ledger, writes>>
    /\ UNCHANGED <<foreign, csv>>

\* saveMessageToDb answers: 500 when it stored nothing, else
\* client.sendMessage is called.
ManualSave(m, ok) ==
    /\ manual[m].pc = "save"
    /\ Insert(ok, NoMid, "pending", TRUE, "manual_single", NoErr)
    /\ manual' = IF ok
                 THEN [manual EXCEPT ![m].pc = "send", ![m].dbId = Len(db) + 1]
                 ELSE [manual EXCEPT ![m].pc = "done"]
    /\ UNCHANGED <<handlers, bulk, clientStatus, inbound, wsUpdates, wsBulk, nextMid,
                   nAcks, nInbound, writes, drops>>
    /\ UNCHANGED <<foreign, csv>>

\* client.sendMessage returns the sent message or throws; the update of the
\* row is issued.
ManualSend(m, ok) ==
    /\ manual[m].pc = "send"
    /\ IF ok
       THEN /\ manual' = [manual EXCEPT ![m].pc = "update", ![m].messageId = nextMid,
                                        ![m].status = "sent"]
            /\ nextMid' = nextMid + 1
       ELSE /\ manual' = [manual EXCEPT ![m].pc = "update", ![m].messageId = NoMid,
                                        ![m].status = "error"]
            /\ UNCHANGED nextMid
    /\ UNCHANGED <<db, handlers, bulk, clientStatus, inbound, wsUpdates, wsNew, wsBulk,
                   nAcks, nInbound, ledger, writes, drops>>
    /\ UNCHANGED <<foreign, csv>>

\* The update of the row executes; the request is answered.
ManualUpdate(m, ok) ==
    /\ manual[m].pc = "update"
    /\ LET row == UpdateData(db[manual[m].dbId], manual[m].messageId, manual[m].status,
                             "Erro desconhecido no envio")
       IN IF ok
          THEN /\ db' = [db EXCEPT ![manual[m].dbId] = row]
               /\ ledger' = Stored(ledger, manual[m].dbId, row)
               /\ writes' = writes (+) SetToBag({row})
               /\ wsUpdates' = wsUpdates (+) UpdateBroadcast(row)
          ELSE /\ wsUpdates' = wsUpdates (+) UpdateBroadcast(NoData)
               /\ UNCHANGED <<db, ledger, writes>>
    /\ manual' = [manual EXCEPT ![m] = [IdleManual EXCEPT !.pc = "done"]]
    /\ UNCHANGED <<handlers, bulk, clientStatus, inbound, wsNew, wsBulk, nextMid, nAcks,
                   nInbound, drops>>
    /\ UNCHANGED <<foreign, csv>>

\* ------------------------------------------------------- the parser of a batch
\* A text is the sequence of its characters.
Digits == {"0", "1", "2", "3", "4", "5", "6", "7", "8", "9"}

\* {10,} of the number pattern
MinDigits == 10

\* n digits
Rep(n) == [k \in 1..n |-> "9"]

\* The number columns of the rows, after the parser's trim: empty, ten
\* digits, a leading + and ten digits, nine digits, a leading + and nine
\* digits, ten digits written with a dash, with parentheses and a space, and
\* with a + inside.
Numbers ==
    { <<>>, Rep(10), <<"+">> \o Rep(10), Rep(9), <<"+">> \o Rep(9),
      Rep(5) \o <<"-">> \o Rep(5),
      <<"(">> \o Rep(2) \o <<")", " ">> \o Rep(8),
      Rep(5) \o <<"+">> \o Rep(5) }

\* The rows of a batch: the columns nome and numero of a data row.
Rows == [nome : {"", "Ana"}, numero : Numbers]

\* The sequences of at most n elements of S.
RECURSIVE SeqsUpTo(_, _)
SeqsUpTo(S, n) ==
    IF n = 0 THEN {<<>>}
    ELSE LET shorter == SeqsUpTo(S, n - 1)
         IN shorter \cup {Append(q, x) : q \in {r \in shorter : Len(r) = n - 1}, x \in S}

\* /^\+?[0-9]{10,}$/.test(number)
NumberPattern(number) ==
    LET digits == IF number # <<>> /\ Head(number) = "+" THEN Tail(number) ELSE number
    IN /\ Len(digits) >= MinDigits
       /\ \A k \in DOMAIN digits : digits[k] \in Digits

\* on_record returning null
NoRecord == [name |-> "", number |-> <<>>]

\* on_record: the record of a data row, or null for a row that is skipped.
OnRecord(row) ==
    IF row.nome = "" \/ row.numero = <<>>
    THEN NoRecord
    ELSE IF ~NumberPattern(row.numero)
         THEN NoRecord
         ELSE [name |-> row.nome, number |-> row.numero]

\* formatWhatsappNumber returning null
NoAddress == <<>>

IsDigitOrPlus(c) == c \in Digits \cup {"+"}

\* formatWhatsappNumber: the characters other than digits and + removed, one
\* leading + dropped, the suffix appended (a short number only warns).
formatWhatsappNumber(number) ==
    IF number = <<>>
    THEN NoAddress
    ELSE LET cleanedNumber == SelectSeq(number, IsDigitOrPlus)
             withoutPlus == IF cleanedNumber # <<>> /\ Head(cleanedNumber) = "+"
                            THEN Tail(cleanedNumber)
                            ELSE cleanedNumber
         IN Append(withoutPlus, "@c.us")

\* /^\d+@c\.us$/.test(recipientId)
StrictAddress(recipientId) ==
    /\ Len(recipientId) >= 2
    /\ recipientId[Len(recipientId)] = "@c.us"
    /\ \A k \in 1..(Len(recipientId) - 1) : recipientId[k] \in Digits

\* `if (!recipientId)` of the loop: the records the loop skips.
SkippedRecipients(records) ==
    {k \in DOMAIN records : formatWhatsappNumber(records[k].number) = NoAddress}

\* Mutant: a skipped row ends the batch.
ParserRecord_Abort ==
    /\ csv.state = "parsing"
    /\ csv.lines < Len(csv.rows)
    /\ LET line == csv.lines + 1
           record == OnRecord(csv.rows[line])
       IN csv' = IF record = NoRecord
                 THEN [csv EXCEPT !.lines = line, !.rejected = @ \cup {line},
                                  !.state = "end"]
                 ELSE [csv EXCEPT !.lines = line, !.records = Append(@, record)]
    /\ UNCHANGED <<db, handlers, bulk, manual, clientStatus, inbound, wsUpdates, wsNew,
                   wsBulk, nextMid, nAcks, nInbound, ledger, writes, drops, foreign>>

\* The parser reads the next data row: on_record, and the push of the record
\* it returned when it is not null.
ParserRecord ==
    /\ csv.state = "parsing"
    /\ csv.lines < Len(csv.rows)
    /\ LET line == csv.lines + 1
           record == OnRecord(csv.rows[line])
       IN csv' = IF record = NoRecord
                 THEN [csv EXCEPT !.lines = line, !.rejected = @ \cup {line}]
                 ELSE [csv EXCEPT !.lines = line, !.records = Append(@, record)]
    /\ UNCHANGED <<db, handlers, bulk, manual, clientStatus, inbound, wsUpdates, wsNew,
                   wsBulk, nextMid, nAcks, nInbound, ledger, writes, drops, foreign>>

\* parser.on('end'): the rows are read, the records are handed to the loop.
ParserEnd ==
    /\ csv.state = "parsing"
    /\ csv.lines = Len(csv.rows)
    /\ csv' = [csv EXCEPT !.state = "end"]
    /\ UNCHANGED <<db, handlers, bulk, manual, clientStatus, inbound, wsUpdates, wsNew,
                   wsBulk, nextMid, nAcks, nInbound, ledger, writes, drops, foreign>>

\* -------------------------------------------------------------------- Next
\* The lifecycle events of the client, as far as the endpoints' guards see
\* them: ready, and the events that leave the client not ready.
ClientNext == \E newStatus \in {"READY", "DISCONNECTED"} : UpdateClientStatus(newStatus)

\* The client becomes ready and stays so.
ClientReady == clientStatus # "READY" /\ UpdateClientStatus("READY")

AckNext ==
    \/ \E h \in Handlers, mid \in 1..(nextMid - 1), ack \in AckCodes :
         AckReceive(h, mid, ack, FromMe(mid))
    \/ \E h \in Handlers : AckFind(h)
    \/ \E h \in Handlers : AckUpdate(h)

\* Up to `jobs` uploads of at most `recipients` valid records.
BulkNext(jobs, recipients) ==
    \/ \E j \in 1..jobs, wellFormed \in BOOLEAN, n \in 0..recipients,
          parseOk \in BOOLEAN, imageOk \in BOOLEAN :
         UploadMailing(j, wellFormed, n, parseOk, imageOk)
    \/ \E j \in 1..jobs, ok \in BOOLEAN : BulkSave(j, ok)
    \/ \E j \in 1..jobs, ok \in BOOLEAN : BulkSend(j, ok)
    \/ \E j \in 1..jobs, ok \in BOOLEAN : BulkUpdate(j, ok)

ManualNext ==
    \/ \E m \in ManualSends, wellFormed \in BOOLEAN : SendMessage(m, wellFormed)
    \/ \E m \in ManualSends, ok \in BOOLEAN : ManualSave(m, ok)
    \/ \E m \in ManualSends, ok \in BOOLEAN : ManualSend(m, ok)
    \/ \E m \in ManualSends, ok \in BOOLEAN : ManualUpdate(m, ok)

InboundNext ==
    \/ \E from \in {"status@broadcast", "fromMe", "other"} : MsgReceive(from)
    \/ \E ok \in BOOLEAN : MsgSaveIncoming(ok)
    \/ \E ok \in BOOLEAN : MsgAutoSend(ok)
    \/ \E ok \in BOOLEAN : MsgAutoSave(ok)

\* The acknowledgement handlers beside one bulk job and the inbound handler.
Next == ClientReady \/ AckNext \/ BulkNext(MaxJobs, MaxRecipients) \/ InboundNext

\* One bulk job alone.
NextBulk == ClientNext \/ BulkNext(MaxJobs, MaxBulkRecipients)

\* The two endpoints together: bulk jobs and /send-message.
NextRequests == ClientNext \/ BulkNext(MaxConcurrentJobs, MaxRecipients) \/ ManualNext

\* The acknowledgement handlers beside the two senders that store a pending
\* row before the send: one bulk job and /send-message.
NextDispatch == ClientReady \/ AckNext \/ BulkNext(MaxJobs, MaxRecipients) \/ ManualNext

\* The acknowledgement handlers beside one bulk job, every query and every
\* send succeeding.
NextRace ==
    \/ ClientReady
    \/ \E h \in Handlers, mid \in 1..(nextMid - 1), ack \in AckCodes :
         AckReceive(h, mid, ack, FromMe(mid))
    \/ \E h \in Handlers : AckFindAnswer(h, FALSE)
    \/ \E h \in Handlers : AckUpdateAnswer(h, TRUE)
    \/ \E j \in 1..MaxJobs, wellFormed \in BOOLEAN, n \in 0..MaxRecipients,
          parseOk \in BOOLEAN, imageOk \in BOOLEAN :
         UploadMailing(j, wellFormed, n, parseOk, imageOk)
    \/ \E j \in 1..MaxJobs : BulkSave(j, TRUE)
    \/ \E j \in 1..MaxJobs : BulkSend(j, TRUE)
    \/ \E j \in 1..MaxJobs : BulkUpdate(j, TRUE)

\* The inbound handler beside /send-message.
NextInbound == ClientNext \/ InboundNext \/ ManualNext

\* The parser alone.
NextCsv == ParserRecord \/ ParserEnd

\* A batch that parses is handed to the parser.
InitCsv ==
    /\ db = <<>>
    /\ handlers = [h \in Handlers |-> IdleHandler]
    /\ bulk = [j \in Jobs |-> IdleBulk]
    /\ manual = [m \in ManualSends |-> IdleManual]
    /\ clientStatus = "READY"
    /\ inbound = IdleInbound
    /\ wsUpdates = EmptyBag
    /\ wsNew = EmptyBag
    /\ wsBulk = [j \in Jobs |-> <<>>]
    /\ nextMid = 1
    /\ nAcks = 0
    /\ nInbound = 0
    /\ ledger = <<>>
    /\ writes = EmptyBag
    /\ drops = {}
    /\ foreign = {}
    /\ \E rows \in SeqsUpTo(Rows, MaxRows) :
          csv = [IdleCsv EXCEPT !.rows = rows, !.state = "parsing"]

Spec == Init /\ [][Next]_vars

SpecCsv == InitCsv /\ [][NextCsv]_vars

SpecBulk == Init /\ [][NextBulk]_vars

SpecRequests == Init /\ [][NextRequests]_vars

\* One bulk job alone, every call it awaits (the pacing timer and the insert,
\* the transport send, the update) settling sooner or later, by resolving or
\* by rejecting.
SpecBulkFair ==
    /\ SpecBulk
    /\ \A j \in 1..MaxJobs :
          /\ WF_vars(\E ok \in BOOLEAN : BulkSave(j, ok))
          /\ WF_vars(\E ok \in BOOLEAN : BulkSend(j, ok))
          /\ WF_vars(\E ok \in BOOLEAN : BulkUpdate(j, ok))

SpecDispatch == Init /\ [][NextDispatch]_vars

\* The inbound handler beside /send-message, every call the handler awaits
\* (the inserts and the send of the auto-response) settling sooner or later.
SpecInbound ==
    /\ Init /\ [][NextInbound]_vars
    /\ WF_vars(\E ok \in BOOLEAN : MsgSaveIncoming(ok))
    /\ WF_vars(\E ok \in BOOLEAN : MsgAutoSend(ok))
    /\ WF_vars(\E ok \in BOOLEAN : MsgAutoSave(ok))

\* Every query a handler awaits and every call the job awaits is answered
\* sooner or later, and here each succeeds; the transport owes no further
\* acknowledgement.
SpecRace ==
    /\ Init /\ [][NextRace]_vars
    /\ \A h \in Handlers : WF_vars(AckFindAnswer(h, FALSE)) /\ WF_vars(AckUpdateAnswer(h, TRUE))
    /\ \A j \in 1..MaxJobs :
          /\ WF_vars(BulkSave(j, TRUE))
          /\ WF_vars(BulkSend(j, TRUE))
          /\ WF_vars(BulkUpdate(j, TRUE))

\* =================================================================== claims

\* C1: no persisted status change takes a row from a status of rank r to a
\* non-error status of rank lower than r (pending 0, sent 1, delivered 2,
\* read 3), whatever the interleaving of dispatch writes and acknowledgement
\* handlers.  Stated for the rows the system originated.
C1_NoRankRegression ==
    [][\A i \in DOMAIN db :
          (db[i].is_outgoing /\ IndexOf(db'[i].status) < IndexOf(db[i].status))
              => db'[i].status = "error"]_vars

\* C2: acknowledgements handled concurrently for one row leave it as if they
\* had been applied one after the other in some order, so no stored status
\* is lost: an originated row holds the highest, in the order of
\* replacement, of the statuses stored in it so far.
C2_NoLostUpdate ==
    \A i \in DOMAIN db : db[i].is_outgoing => ExtRank(db[i].status) = ledger[i].top

\* C5: error and read are terminal: an originated row whose status is error
\* keeps it, and one whose status is read changes only to error.
C5_Terminal ==
    [][\A i \in DOMAIN db :
          db[i].is_outgoing =>
              /\ db[i].status = "error" => db'[i].status = "error"
              /\ db[i].status = "read" => db'[i].status \in {"read", "error"}]_vars

\* The transition rule as the specification words it, with >=.
RuleGeq(C, S) ==
    S = "error" \/ (C \notin {"read", "error"} /\ IndexOf(S) >= IndexOf(C))

\* The transition rule with a strict comparison (index -1 for a status
\* outside the hierarchy).
RuleGreater(C, S) ==
    S = "error" \/ (C \notin {"read", "error"} /\ IndexOf(S) > IndexOf(C))

\* C3 as claimed: an acknowledgement resolved to a row of status C and
\* proposing S is applied iff S is error, or C is not read or error and
\* rank(S) >= rank(C); so one proposing the status the row has is applied.
\* Stated for originated rows and recognised codes.
C3_AppliedIffRankGeq ==
    /\ \A h \in Handlers :
          handlers[h].pc = "update" =>
              RuleGeq(handlers[h].currentStatus, handlers[h].newStatus)
    /\ \A i \in DOMAIN ledger :
          (ledger[i].last # NoAck /\ db[i].is_outgoing
                /\ ledger[i].last.newStatus # "unknown") =>
              (ledger[i].last.applied <=> RuleGeq(ledger[i].last.from,
                                                  ledger[i].last.newStatus))

\* C3 amended: an acknowledgement resolved to a row of status C and proposing
\* S is applied iff S is error, or C is not read or error and rank(S) >
\* rank(C); one proposing the status the row already has is not applied.
C3_AppliedIffRankGreater ==
    /\ \A h \in Handlers :
          handlers[h].pc = "update" =>
              RuleGreater(handlers[h].currentStatus, handlers[h].newStatus)
    /\ \A i \in DOMAIN ledger :
          ledger[i].last # NoAck =>
              (ledger[i].last.applied <=> RuleGreater(ledger[i].last.from,
                                                      ledger[i].last.newStatus))

\* An acknowledgement proposing the status an originated row already had was
\* handled and not applied.
C3_Witness ==
    \E i \in DOMAIN ledger :
        /\ ledger[i].last # NoAck
        /\ db[i].is_outgoing
        /\ ~ledger[i].last.applied
        /\ ledger[i].last.newStatus = ledger[i].last.from
        /\ ledger[i].last.from \in {"pending", "sent", "delivered"}

C6_ErrorAlwaysStored ==
    [][\A h \in Handlers :
          (handlers[h].pc = "update" /\ handlers[h].newStatus = "error"
                /\ db[handlers[h].dbId].is_outgoing
                /\ handlers'[h].pc = "idle") =>
              db'[handlers[h].dbId].status = "error"]_vars

\* C6 amended: an acknowledgement carrying the failure code that resolves to
\* a row is never suppressed, whatever the row's status (read and error
\* included), and when its write succeeds the stored status is error.
C6_ErrorNeverSuppressed ==
    \A i \in DOMAIN ledger :
        (ledger[i].last # NoAck /\ ledger[i].last.newStatus = "error") =>
            /\ ledger[i].last.applied
            /\ ledger[i].last.row.status = "error"

\* The failure code was applied to an originated row whose status was read.
C6_Witness ==
    \E i \in DOMAIN ledger :
        /\ ledger[i].last # NoAck
        /\ db[i].is_outgoing
        /\ ledger[i].last.newStatus = "error"
        /\ ledger[i].last.from = "read"
        /\ ledger[i].last.applied
        /\ db[i].status = "error"

\* The suppression condition of the specification: a non-error proposal of
\* lower rank, or any non-error proposal for a read or error row.
Suppressed(C, S) ==
    S # "error" /\ (IndexOf(S) < IndexOf(C) \/ C \in {"read", "error"})

\* C7: a handler whose acknowledgement resolves to exactly one row and is
\* suppressed (lower rank, or a non-error proposal for a read or error row)
\* finishes in that step with no write and no notification; nothing else
\* of the store changes.
C7_SuppressedIsSilent ==
    [][\A h \in Handlers :
          LET found == {i \in DOMAIN db : db[i].message_id = handlers[h].message_id}
          IN (/\ handlers[h].pc = "find"
              /\ handlers'[h].pc # "find"
              /\ Cardinality(found) = 1
              /\ \E i \in found : Suppressed(db[i].status, handlers[h].newStatus)) =>
                 /\ handlers'[h].pc = "idle"
                 /\ UNCHANGED <<db, writes, wsUpdates, wsNew, wsBulk>>]_vars

\* A pending acknowledgement for a delivered originated row was handled and
\* not applied, and the row is still delivered.
C7_Witness ==
    \E i \in DOMAIN ledger :
        /\ ledger[i].last # NoAck
        /\ db[i].is_outgoing
        /\ ledger[i].last.newStatus = "pending"
        /\ ledger[i].last.from = "delivered"
        /\ ~ledger[i].last.applied
        /\ db[i].status = "delivered"

\* C8: the message_update notifications emitted are exactly the rows that
\* status writes returned, one notification per successful write; a write
\* that fails or returns no row emits none.
C8_OneUpdatePerWrite == wsUpdates = writes

\* A bulk job ended with its row still pending (the sent write failed, no
\* notification) while another write succeeded and was notified.
C8_Witness ==
    /\ BagCardinality(wsUpdates) >= 1
    /\ \E i \in DOMAIN db :
          /\ db[i].message_type = "bulk"
          /\ db[i].status = "pending"
          /\ db[i].message_id = NoMid
          /\ \A j \in Jobs : bulk[j].pc \in {"idle", "done"}

\* C9: an acknowledgement that is not fromMe, or whose message id matches no
\* row, is dropped: no write, no notification, no row changes; only fromMe
\* acknowledgements are ever in a handler.
C9_Dropped ==
    /\ [][\A h \in Handlers :
            (/\ handlers[h].pc = "find"
             /\ handlers'[h].pc # "find"
             /\ \A i \in DOMAIN db : db[i].message_id # handlers[h].message_id) =>
                /\ handlers'[h].pc = "idle"
                /\ UNCHANGED <<db, writes, wsUpdates, wsNew, wsBulk, ledger>>]_vars
    /\ [][(nAcks' # nAcks /\ \A h \in Handlers : handlers'[h].pc = handlers[h].pc) =>
              UNCHANGED <<db, handlers, writes, wsUpdates, wsNew, wsBulk, ledger>>]_vars
    /\ [](\A h \in Handlers : handlers[h].pc # "idle" => handlers[h].fromMe)

\* Both kinds of drop have happened while rows exist.
C9_Witness ==
    /\ "ignored" \in drops
    /\ "notfound" \in drops
    /\ db # <<>>

\* C10: code 4 (played) is handled as read and code -1 as error; a code
\* outside {-1, 0, 1, 2, 3, 4} gives the status unknown, which is never
\* applied to any row, whatever the status the row holds.
C10_CodeMapping ==
    /\ NewStatus(4) = "read"
    /\ NewStatus(-1) = "error"
    /\ \A c \in AckCodes \ {-1, 0, 1, 2, 3, 4} : NewStatus(c) = "unknown"
    /\ \A h \in Handlers :
          handlers[h].pc = "update" => handlers[h].newStatus # "unknown"
    /\ \A i \in DOMAIN db : db[i].status # "unknown"
    /\ \A i \in DOMAIN ledger :
          (ledger[i].last # NoAck /\ ledger[i].last.newStatus = "unknown") =>
              /\ ~ledger[i].last.applied
              /\ ledger[i].last.row = ledger[i].last.before
    /\ \A currentStatus \in {"pending", "sent", "delivered", "read", "error",
                              "received", "unknown"} :
          ~AckApplies(currentStatus, "unknown")

\* An unrecognised code was handled for a pending row of the account's own
\* auto-response, and the row is still pending.
C10_Witness ==
    \E i \in DOMAIN ledger :
        /\ ledger[i].last # NoAck
        /\ ledger[i].last.newStatus = "unknown"
        /\ ledger[i].last.from = "pending"
        /\ ~ledger[i].last.applied
        /\ db[i].status = "pending"
        /\ db[i].is_outgoing

\* ---------------------------------------------------------- the bulk loop
\* The rows the bulk loop has created.
BulkRows == {i \in DOMAIN db : db[i].message_type = "bulk"}

\* The transport sends issued by the jobs 1..k.
RECURSIVE SendsUpTo(_)
SendsUpTo(k) == IF k = 0 THEN 0 ELSE bulk[k].sends + SendsUpTo(k - 1)

\* C11: while a send of the job is in flight the job holds the row it
\* created for that recipient, stored pending and without transport
\* identifier, and the jobs have issued exactly as many sends as they have
\* created rows; when the creation of the row fails, the step counts the recipient as
\* failed, emits its progress notification, issues no send and creates no
\* row, and the loop is at the next recipient or finished.
C11_SendOnlyAfterPendingRecord ==
    /\ [](SendsUpTo(MaxConcurrentJobs) = Cardinality(BulkRows))
    /\ [](\A j \in Jobs :
            bulk[j].pc = "send" =>
                  /\ bulk[j].dbId \in BulkRows
                  /\ db[bulk[j].dbId].status = "pending"
                  /\ db[bulk[j].dbId].message_id = NoMid)
    /\ [][\A j \in Jobs :
            (bulk[j].pc = "save" /\ bulk'[j].pc # "send" /\ bulk'[j] # bulk[j]) =>
                /\ db' = db
                /\ bulk'[j].sends = bulk[j].sends
                /\ bulk'[j].failCount = bulk[j].failCount + 1
                /\ bulk'[j].sentCount = bulk[j].sentCount
                /\ bulk'[j].i = bulk[j].i + 1
                /\ bulk'[j].pc = IF bulk'[j].i = bulk[j].total THEN "done" ELSE "save"
                /\ Len(wsBulk'[j]) > Len(wsBulk[j])
                /\ wsBulk'[j][Len(wsBulk[j]) + 1] =
                      ProgressEvent(bulk[j].i + 1, bulk[j].total, bulk[j].sentCount,
                                    bulk[j].failCount + 1)]_vars

\* The creation of the first recipient's row failed and the loop went on: a
\* send for the second recipient is in flight, for the only row there is.
C11_Witness ==
    \E j \in Jobs :
        /\ bulk[j].pc = "send"
        /\ bulk[j].i = 1
        /\ bulk[j].failCount = 1
        /\ bulk[j].sends = 1
        /\ Cardinality(BulkRows) = 1

LoopDone(j) == bulk[j].pc = "done" /\ bulk[j].total > 0 /\ bulk[j].i = bulk[j].total

\* C13 as claimed: a run over N recipients has emitted exactly N progress
\* notifications, the k-th with current = k, and then one completion with
\* total = N.
C13_ExactlyNProgress ==
    \A j \in Jobs :
        LoopDone(j) =>
            LET N == bulk[j].total
                events == wsBulk[j]
            IN /\ Len(events) = N + 1
               /\ \A k \in 1..N : /\ events[k].type = "bulk_progress"
                                  /\ events[k].payload.current = k
               /\ events[N + 1].type = "bulk_complete"
               /\ events[N + 1].payload.total = N

\* C13 amended: a run over N >= 1 recipients emits N + 1 progress
\* notifications, an initial one with current = 0 and then one per recipient
\* with current = 1..N in increasing order, each with total = N, followed by
\* exactly one completion with total = N; nothing follows the completion.
\* While the loop is at recipient i (counted from 0) the notifications so far
\* are the progress notifications 0..i.
C13_ProgressThenCompletion ==
    /\ [](\A j \in Jobs :
            LET N == bulk[j].total
                events == wsBulk[j]
            IN /\ bulk[j].pc \in {"save", "send", "update"} =>
                     /\ Len(events) = bulk[j].i + 1
                     /\ \A k \in 1..Len(events) :
                           /\ events[k].type = "bulk_progress"
                           /\ events[k].payload.current = k - 1
                           /\ events[k].payload.total = N
               /\ LoopDone(j) =>
                     /\ Len(events) = N + 2
                     /\ \A k \in 1..(N + 1) :
                           /\ events[k].type = "bulk_progress"
                           /\ events[k].payload.current = k - 1
                           /\ events[k].payload.total = N
                     /\ events[N + 2].type = "bulk_complete"
                     /\ events[N + 2].payload.total = N)
    /\ [][\A j \in Jobs : bulk[j].pc = "done" => wsBulk'[j] = wsBulk[j]]_vars

\* A run over two recipients is over: four notifications.
C13_Witness ==
    \E j \in Jobs : LoopDone(j) /\ bulk[j].total = 2 /\ Len(wsBulk[j]) = 4

\* The job's recipient loop is running.
InLoop(j) == bulk[j].pc \in {"save", "send", "update"}

C15_Sequential ==
    /\ [](\A j \in Jobs :
            InLoop(j) =>
                /\ bulk[j].sentCount + bulk[j].failCount =
                      bulk[j].i + (IF bulk[j].pc = "update" THEN 1 ELSE 0)
                /\ Len(wsBulk[j]) = bulk[j].i + 1
                /\ wsBulk[j][Len(wsBulk[j])].payload.current = bulk[j].i
                /\ bulk[j].sends <= bulk[j].i + (IF bulk[j].pc = "save" THEN 0 ELSE 1))
    /\ [][\A j \in Jobs :
            bulk'[j].sends # bulk[j].sends =>
                /\ bulk'[j].sends = bulk[j].sends + 1
                /\ bulk[j].pc = "save"
                /\ bulk'[j].pc = "send"
                /\ bulk'[j].i = bulk[j].i]_vars

\* The send to the second recipient is in flight; the first has returned and
\* its row is stored sent.
C15_Witness ==
    \E j \in Jobs :
        /\ bulk[j].pc = "send"
        /\ bulk[j].i = 1
        /\ bulk[j].sends = 2
        /\ db[1].status = "sent"
        /\ wsBulk[j][Len(wsBulk[j])] = ProgressEvent(1, 2, 1, 0)

\* ------------------------------------------------------ the senders together
\* C16: the recipient loops of two bulk jobs never run at the same time.
C16_OneActiveJob ==
    \A j, k \in Jobs : (InLoop(j) /\ InLoop(k)) => j = k

\* Job j has issued its first send and not yet emitted its completion.
Sending(j) == InLoop(j) /\ bulk[j].sends > 0

\* C17: while a job is between its first send and its completion, no step
\* issues the transport send of a /send-message request or of an
\* auto-response.
C17_SoleWriter ==
    [][(\E j \in Jobs : Sending(j)) =>
          /\ \A m \in ManualSends :
                manual'[m].pc = "send" => manual[m].pc = "send"
          /\ inbound'.pc = "autoSend" => inbound.pc = "autoSend"]_vars

\* C18: while the client is not READY no bulk job and no /send-message
\* request is started, and the step that refuses a request issues no send,
\* creates no row, emits nothing and leaves every job and request where it
\* was.
C18_NotReadyNoEffect ==
    /\ [][clientStatus # "READY" =>
            /\ \A j \in Jobs : bulk[j].pc = "idle" => bulk'[j] = bulk[j]
            /\ \A m \in ManualSends : manual[m].pc = "idle" => manual'[m] = manual[m]]_vars
    /\ [][(drops' \ drops) \cap {"upload_not_ready", "send_not_ready"} # {} =>
            /\ clientStatus # "READY"
            /\ UNCHANGED <<db, bulk, manual, wsUpdates, wsNew, wsBulk, nextMid, writes>>]_vars

\* An upload and a /send-message request have both been refused, the client
\* is not ready, and nothing has been started, stored or emitted.
C18_Witness ==
    /\ clientStatus # "READY"
    /\ {"upload_not_ready", "send_not_ready"} \subseteq drops
    /\ db = <<>>
    /\ \A j \in Jobs : bulk[j] = IdleBulk /\ wsBulk[j] = <<>>
    /\ \A m \in ManualSends : manual[m] = IdleManual

\* ------------------------------------------------------- batch-level aborts
\* The job was stopped by a parsing failure.
ParseAborted(j) ==
    wsBulk[j] # <<>> /\ wsBulk[j][1] = ErrorEvent("CSV Parsing Error")

\* The job was stopped by the failure of the image preparation.
ImageAborted(j) ==
    wsBulk[j] # <<>> /\ wsBulk[j][1] = ErrorEvent("Failed to process image for bulk send")

\* The events of the given type among the job's notifications.
EventsOfType(j, type) == {k \in DOMAIN wsBulk[j] : wsBulk[j][k].type = type}

\* C19: a job stopped by a parsing failure or by the failure of the image
\* preparation is over at once: it never enters the loop, issues no send,
\* creates no row and emits no progress notification; for the image failure
\* the completion that processCsvAndSendBulk emits reports failed = total, the
\* number of valid records, and sent = 0, and no completion of an aborted job
\* reports a sent message.
C19_AbortBeforeLoop ==
    /\ [](\A j \in Jobs :
            (ParseAborted(j) \/ ImageAborted(j)) =>
                /\ bulk[j].pc = "done"
                /\ bulk[j].i = 0
                /\ bulk[j].sends = 0
                /\ EventsOfType(j, "bulk_progress") = {}
                /\ \A k \in EventsOfType(j, "bulk_complete") : wsBulk[j][k].payload.sent = 0
                /\ ImageAborted(j) =>
                      /\ bulk[j].total > 0
                      /\ wsBulk[j][2] = CompleteEvent(bulk[j].total, 0, bulk[j].total, NoJob))
    /\ [][\A j \in Jobs :
            (bulk[j].pc = "idle" /\ bulk'[j].pc = "done") =>
                UNCHANGED <<db, wsNew, wsUpdates, writes, nextMid>>]_vars

\* A job of two valid records was stopped by the image preparation; nothing
\* is stored.
C19_Witness ==
    \E j \in Jobs :
        /\ ImageAborted(j)
        /\ bulk[j].total = 2
        /\ wsBulk[j][2] = CompleteEvent(2, 0, 2, NoJob)
        /\ db = <<>>

\* C20: a job stopped by a batch-level failure has emitted exactly one error
\* notification and exactly one completion notification.
C20_SingleFailureReport ==
    \A j \in Jobs :
        (ParseAborted(j) \/ ImageAborted(j)) =>
            /\ Cardinality(EventsOfType(j, "error")) = 1
            /\ Cardinality(EventsOfType(j, "bulk_complete")) = 1

\* --------------------------------------------------- completion of requests
\* Job j has had a completion notification.
Completed(j) == EventsOfType(j, "bulk_complete") # {}

\* C21 as claimed: every bulk request, the one refused because the client is
\* not ready included, is followed by a completion notification.
C21_EveryRequestCompletes ==
    /\ \A j \in Jobs : (bulk[j].pc # "idle") ~> Completed(j)
    /\ ("upload_not_ready" \in drops) ~> (\E j \in Jobs : Completed(j))

\* C21 amended: every accepted bulk request is followed by a completion
\* notification of its job, whatever the outcome (loop run to its end with or
\* without failures, zero valid records, parsing failure, image failure),
\* provided every awaited call settles; the step that refuses a request
\* emits no notification.
C21_AcceptedRequestCompletes ==
    /\ \A j \in Jobs : (bulk[j].pc # "idle") ~> Completed(j)
    /\ [](\A j \in Jobs : bulk[j].pc = "done" => Completed(j))
    /\ [][("upload_not_ready" \in drops' \ drops) => wsBulk' = wsBulk]_vars

\* A request was refused while the client was not ready, and a later job
\* whose two recipients both failed has had its completion.
C21_Witness ==
    /\ "upload_not_ready" \in drops
    /\ \E j \in Jobs :
          /\ LoopDone(j)
          /\ wsBulk[j][Len(wsBulk[j])] = CompleteEvent(2, 0, 2, j)
          /\ Len(db) = 2

\* The batch of job j parsed and had no valid record.
ZeroRecords(j) == bulk[j].pc = "done" /\ bulk[j].total = 0 /\ ~ParseAborted(j)

\* C22: a job whose batch has no valid record emits exactly one notification,
\* the completion {total: 0, sent: 0, failed: 0}: no error and no progress
\* notification; it issues no send, and the step that ends it creates no row.
C22_ZeroRecipients ==
    /\ [](\A j \in Jobs :
            ZeroRecords(j) =>
                /\ wsBulk[j] = <<CompleteEvent(0, 0, 0, NoJob)>>
                /\ bulk[j].sends = 0
                /\ bulk[j].i = 0)
    /\ [][\A j \in Jobs :
            (~ZeroRecords(j) /\ ZeroRecords(j)') =>
                /\ bulk[j].pc = "idle"
                /\ UNCHANGED <<db, wsNew, wsUpdates, writes, nextMid>>]_vars

\* A job without valid records is over and nothing is stored.
C22_Witness ==
    \E j \in Jobs :
        /\ ZeroRecords(j)
        /\ Len(wsBulk[j]) = 1
        /\ wsBulk[j][1].payload.total = 0
        /\ db = <<>>

\* ------------------------------------------------------------ inbound records
\* The rows stored for inbound messages.
InboundRows == {i \in DOMAIN db : ~db[i].is_outgoing}

\* C23: a row stored as received for an inbound message is written once: no
\* step changes its status, message_id or error_message (the row stays as it
\* was inserted), every inbound row has the status received, and no
\* acknowledgement for the message of an inbound row reaches the lookup.
C23_InboundWrittenOnce ==
    /\ [][\A i \in InboundRows : i \in DOMAIN db' /\ db'[i] = db[i]]_vars
    /\ [](\A i \in InboundRows : db[i].status = "received" /\ db[i].message_id \in foreign)
    /\ [](\A h \in Handlers : handlers[h].pc # "idle" => handlers[h].message_id \notin foreign)

\* An acknowledgement was ignored while the only message that is not the
\* account's own is the one of a stored inbound row, and an acknowledgement
\* was applied to the auto-response next to it.
C23_Witness ==
    /\ "ignored" \in drops
    /\ \E i \in InboundRows : foreign = {db[i].message_id} /\ db[i].status = "received"
    /\ \E i \in DOMAIN db : db[i].is_outgoing /\ db[i].status = "delivered"

\* --------------------------------------------------------- recipient ingestion
\* The records of the rows 1..k that were not rejected, in the order of the rows.
RECURSIVE KeptUpTo(_)
KeptUpTo(k) ==
    IF k = 0 THEN <<>>
    ELSE IF k \in csv.rejected
         THEN KeptUpTo(k - 1)
         ELSE Append(KeptUpTo(k - 1),
                     [name |-> csv.rows[k].nome, number |-> csv.rows[k].numero])

\* C24: at every point of the parsing of a batch the records produced plus
\* the rows rejected are the data rows read, the records are the rows that
\* were not rejected in the order of the input, the step that rejects a row
\* leaves the records as they are and the parser running, and the parser ends
\* only when every data row has been read; a batch of three rows whose second
\* row has an empty number and whose other rows are valid ends with two
\* records and row 2 rejected.
C24_RowsPartitioned ==
    /\ [](/\ Len(csv.records) + Cardinality(csv.rejected) = csv.lines
          /\ csv.rejected \subseteq 1..csv.lines
          /\ csv.records = KeptUpTo(csv.lines))
    /\ [](csv.state = "end" => csv.lines = Len(csv.rows))
    /\ [][csv'.rejected # csv.rejected =>
             /\ csv'.state = "parsing"
             /\ csv'.records = csv.records
             /\ csv'.lines = csv.lines + 1]_vars
    /\ [](( /\ csv.state = "end"
            /\ Len(csv.rows) = 3
            /\ csv.rows[2] = [nome |-> "Ana", numero |-> <<>>]
            /\ \A k \in {1, 3} : csv.rows[k] = [nome |-> "Ana", numero |-> Rep(10)] )
          => Len(csv.records) = 2 /\ csv.rejected = {2})

\* The batch of three rows whose second row has an empty number has been
\* read to its end: two records, row 2 rejected.
C24_Witness ==
    /\ csv.state = "end"
    /\ Len(csv.rows) = 3
    /\ csv.rows[2].nome = "Ana" /\ csv.rows[2].numero = <<>>
    /\ csv.rejected = {2}
    /\ Len(csv.records) = 2
    /\ csv.records[1].number = csv.rows[1].numero
    /\ csv.records[2].number = csv.rows[3].numero

\* The number with the characters other than digits and a leading + removed.
StrippedForCheck(number) ==
    LET IsDigit(c) == c \in Digits
        lead == IF number # <<>> /\ Head(number) = "+" THEN <<"+">> ELSE <<>>
    IN lead \o SelectSeq(number, IsDigit)

\* C25: a data row that has been read is rejected if and only if its name or
\* its number is empty or its number, with the characters other than digits
\* and a leading + removed, is not an optional + followed by at least ten
\* digits.
C25_RejectedIffStrippedFails ==
    \A k \in 1..csv.lines :
        (k \in csv.rejected) <=>
            \/ csv.rows[k].nome = ""
            \/ csv.rows[k].numero = <<>>
            \/ ~NumberPattern(StrippedForCheck(csv.rows[k].numero))

\* Every record the parser hands to the loop has an address that is digits
\* followed by the suffix: the loop skips none of them.
RecordsHaveStrictAddress ==
    /\ SkippedRecipients(csv.records) = {}
    /\ \A k \in DOMAIN csv.records :
          StrictAddress(formatWhatsappNumber(csv.records[k].number))

\* ------------------------------------------------------- the job's counters
\* C27: in every progress notification success + failed = current, and in
\* every completion notification that carries counts sent + failed = total;
\* at the start of an iteration the two counters add up to the recipients
\* finished, after the send of the iteration to one more, and at the end of
\* the loop to the total, which the completion reports; no step adds more
\* than one to the counters together and none takes from a counter.
C27_CountersPartition ==
    /\ [](\A j \in Jobs : \A k \in DOMAIN wsBulk[j] :
            LET e == wsBulk[j][k]
            IN /\ e.type = "bulk_progress" =>
                     /\ e.payload.success + e.payload.failed = e.payload.current
                     /\ e.payload.success >= 0 /\ e.payload.failed >= 0
               /\ (e.type = "bulk_complete" /\ e.payload.total # Unknown) =>
                     /\ e.payload.sent + e.payload.failed = e.payload.total
                     /\ e.payload.sent >= 0 /\ e.payload.failed >= 0)
    /\ [](\A j \in Jobs :
            /\ bulk[j].pc \in {"save", "send"} =>
                  bulk[j].sentCount + bulk[j].failCount = bulk[j].i
            /\ bulk[j].pc = "update" =>
                  bulk[j].sentCount + bulk[j].failCount = bulk[j].i + 1
            /\ LoopDone(j) =>
                  /\ bulk[j].sentCount + bulk[j].failCount = bulk[j].total
                  /\ wsBulk[j][Len(wsBulk[j])] =
                         CompleteEvent(bulk[j].total, bulk[j].sentCount, bulk[j].failCount, j))
    /\ [][\A j \in Jobs :
            /\ bulk'[j].sentCount \in {bulk[j].sentCount, bulk[j].sentCount + 1}
            /\ bulk'[j].failCount \in {bulk[j].failCount, bulk[j].failCount + 1}
            /\ bulk'[j].sentCount + bulk'[j].failCount
                  <= bulk[j].sentCount + bulk[j].failCount + 1]_vars

\* A job of two recipients has ended with one sent and one failed.
C27_Witness ==
    \E j \in Jobs :
        /\ LoopDone(j)
        /\ wsBulk[j][Len(wsBulk[j])] = CompleteEvent(2, 1, 1, j)
        /\ wsBulk[j][2].payload.current = 1
        /\ wsBulk[j][3].payload.current = 2
        /\ wsBulk[j][3].payload.success + wsBulk[j][3].payload.failed = 2

\* --------------------------------------------------- pending rows and the id
\* The rows the bulk loop and /send-message create before the send.
DispatchRows == {i \in DOMAIN db : db[i].message_type \in {"bulk", "manual_single"}}

\* C28: a row of a bulk job or of /send-message has no message_id for as long
\* as it is pending, so no acknowledgement handler holds such a row as the one
\* its lookup returned; every step that stores sent in such a row, and every
\* step that gives it a message_id, finds it pending, and no step stores sent
\* over delivered, read or error in it.
C28_SentReplacesPending ==
    /\ [](\A i \in DispatchRows : db[i].status = "pending" => db[i].message_id = NoMid)
    /\ [](\A h \in Handlers :
            handlers[h].pc = "update" =>
                ~(handlers[h].dbId \in DispatchRows /\ db[handlers[h].dbId].status = "pending"))
    /\ [][\A i \in DispatchRows :
            /\ (db'[i].status = "sent" /\ db[i].status # "sent") => db[i].status = "pending"
            /\ db'[i].message_id # db[i].message_id =>
                  /\ db[i].status = "pending"
                  /\ db'[i].status = "sent"
            /\ db[i].status \in {"delivered", "read", "error"} => db'[i].status # "sent"]_vars

\* A bulk row and a /send-message row: one has been written sent and then
\* acknowledged as delivered, the other is still pending without id, while
\* acknowledgements were looked up and not found.
C28_Witness ==
    /\ "notfound" \in drops
    /\ \E i \in DispatchRows : db[i].status = "delivered" /\ db[i].message_id # NoMid
    /\ \E i \in DispatchRows : db[i].status = "pending" /\ db[i].message_id = NoMid

\* --------------------------------------------- acknowledgements and the id
\* The statuses of the recognised codes.
Recognised == {"sent", "delivered", "read", "error"}

\* The acknowledgement of status S for the message m has left its mark: a
\* row of the message is error, or has a rank not below the one of S.
Reflected(m, S) ==
    \E i \in DOMAIN db :
        /\ db[i].message_id = m
        /\ \/ db[i].status = "error"
           \/ (S # "error" /\ IndexOf(db[i].status) >= IndexOf(S))

\* C29: when every awaited call is answered, an acknowledgement of a
\* recognised status S that a handler has taken up for a message the
\* account sent leads to a row of that message that is error or of a rank
\* not below the rank of S.
C29_NoAckLost ==
    \A h \in Handlers : \A m \in 1..(MaxAcks + MaxRecipients) : \A S \in Recognised :
        (handlers[h].pc = "find" /\ handlers[h].message_id = m /\ handlers[h].newStatus = S)
            ~> Reflected(m, S)

\* ------------------------------------------------- the rows at completion
\* C30: when the loop of a job has ended and its completion is emitted, no
\* row of the job is pending and the sent of the completion is the number of
\* the job's rows that hold a message_id.
C30_CompletionMatchesRows ==
    \A j \in 1..MaxJobs :
        LoopDone(j) =>
            /\ \A i \in BulkRows : db[i].status # "pending"
            /\ wsBulk[j][Len(wsBulk[j])].payload.sent =
                  Cardinality({i \in BulkRows : db[i].message_id # NoMid})

\* ---------------------------------------------------- the inbound handler
\* The rows of the given message_type.
RowsOfType(rows, type) == {i \in DOMAIN rows : rows[i].message_type = type}

\* The rows the inbound handler creates.
HandlerRows(rows) ==
    RowsOfType(rows, "incoming") \cup RowsOfType(rows, "auto_response")
        \cup RowsOfType(rows, "forwarded")

\* The last message delivered was the account's own or a status broadcast.
Ignored == inbound.from \in {"status@broadcast", "fromMe"}

\* The handler returns after the insert of the auto-response was answered.
AutoSaveReturns == inbound.pc = "autoSave" /\ inbound'.pc = "idle"

============================================================================
